---- MODULE Spec2Model ----
(***************************************************************************)
(* django-template-partials: named fragments ("partials") of a template    *)
(* document.  The model follows src/template_partials/templatetags/        *)
(* partials.py (the partialdef / startpartial / partial tags, the          *)
(* TemplateProxy and the SubDictionaryWrapper) and src/template_partials/  *)
(* loader.py (the loader that splits "document#fragment").                 *)
(*                                                                         *)
(* A template source is a sequence of tokens as the host lexer produces    *)
(* them: a text token, or a block token {% w1 w2 ... %} whose contents are *)
(* the words w1 w2 ... (token.split_contents()).  An offset into the       *)
(* source text is a token boundary: token i spans the offsets [i-1, i).    *)
(***************************************************************************)
EXTENDS Integers, Sequences, FiniteSets, TLC

\* Bounds of the exploration.
MaxItems == 3
MaxBlocks == 2

\* Fragment names used by the documents that are explored.
Names == {"a", "b"}

VARIABLES
    hasExtraData,  \* hasattr(parser, "extra_data"): the host is Django 5.1+
    doc,           \* the document being written, a sequence of items
    phase,         \* "edit", "compiled", "failed", "rendered"
    tmpl,          \* the compiled document
    rendered,      \* the result of template.render()
    debug,         \* engine.debug
    loaders,       \* Loader.loaders: the wrapped loaders
    files,         \* the template files on disk: full path -> document
    cache,         \* the wrapped cached loader's get_template_cache
    request,       \* the last call of Loader.get_template: what was asked
    result,        \* ... and what it returned or raised
    resetDone,     \* the wrapped loaders reset by the last Loader.reset()
    TEMPLATES,     \* settings.TEMPLATES: the engine configurations
    engines,       \* django.template.engines: its cached templates and _engines
    wrapCall,      \* the last call on the settings or the engine handler
    context,       \* a render context object handed to TemplateProxy.render
    renderCall     \* the last TemplateProxy.render: the context before and inside

docVars == <<doc, phase, tmpl, rendered>>
loaderVars == <<debug, loaders, files, cache, request, result, resetDone>>
appVars == <<TEMPLATES, engines, wrapCall>>
contextVars == <<context, renderCall>>
vars == <<hasExtraData, doc, phase, tmpl, rendered,
          debug, loaders, files, cache, request, result, resetDone,
          TEMPLATES, engines, wrapCall, context, renderCall>>

----------------------------------------------------------------------------
(* Values *)

NoErr == [type |-> "", msg |-> "", tried |-> <<>>]
Error(type, msg) == [type |-> type, msg |-> msg, tried |-> <<>>]

\* A registry location: absent (no "partials" key / no partial_contents
\* attribute), or a dict from fragment name to TemplateProxy.
NoRegistry == [present |-> FALSE, map |-> <<>>]

TextToken(s) == [type |-> "text", contents |-> <<s>>]
BlockToken(words) == [type |-> "block", contents |-> words]

\* The end directive that closes a begin directive of spelling tag.
EndTagOf(tag) == IF tag = "startpartial" THEN "endpartial" ELSE "endpartialdef"

\* Items a document is written from: free text, a reference, or a definition
\* block (begin directive, body text, end directive).
TextItem(s) ==
    [kind |-> "text", tag |-> "", name |-> "", inline |-> "", body |-> <<s>>, end |-> <<>>]
RefItem(n) ==
    [kind |-> "ref", tag |-> "partial", name |-> n, inline |-> "", body |-> <<>>, end |-> <<>>]
DefItem(tag, n, inline, body, end) ==
    [kind |-> "def", tag |-> tag, name |-> n, inline |-> inline, body |-> body, end |-> end]

\* The tokens of one item, as the lexer yields them.
ItemTokens(it) ==
    CASE it.kind = "text" -> <<TextToken(it.body[1])>>
      [] it.kind = "ref" -> <<BlockToken(<<it.tag, it.name>>)>>
      [] OTHER ->
            <<BlockToken(<<it.tag, it.name>> \o
                         (IF it.inline = "" THEN <<>> ELSE <<it.inline>>))>>
            \o [i \in 1..Len(it.body) |-> TextToken(it.body[i])]
            \o <<BlockToken(<<EndTagOf(it.tag)>> \o it.end)>>

RECURSIVE Tokens(_)
Tokens(items) ==
    IF items = <<>> THEN <<>>
    ELSE ItemTokens(Head(items)) \o Tokens(Tail(items))

----------------------------------------------------------------------------
(* templatetags/partials.py: nodes *)

TextNode(s) ==
    [kind |-> "text", s |-> s, partial_name |-> "", inline |-> "",
     nodelist |-> <<>>, partial_mapping |-> <<>>]

\* class TemplateProxy: __init__
TemplateProxy(nodelist, origin, name) ==
    [nodelist |-> nodelist, origin |-> origin, name |-> name, engine |-> ""]

\* class DefinePartialNode: __init__
DefinePartialNode(partial_name, inline, nodelist) ==
    [kind |-> "define", s |-> "", partial_name |-> partial_name, inline |-> inline,
     nodelist |-> nodelist, partial_mapping |-> <<>>]

\* class SubDictionaryWrapper: __init__.  parent_dict is a reference: to the
\* parser's extra_data dict, or to the origin object.
SubDictionaryWrapper(parent_dict, lookup_key) == <<parent_dict, lookup_key>>

\* class RenderPartialNode: __init__
RenderPartialNode(partial_name, partial_mapping) ==
    [kind |-> "render", s |-> "", partial_name |-> partial_name, inline |-> "",
     nodelist |-> <<>>, partial_mapping |-> partial_mapping]

----------------------------------------------------------------------------
(* The host parser (django.template.base.Parser) and the tag functions *)

\* Parser(tokens, origin): extra_data is {} on a host that has it.
Parser(tokens, origin, has_extra_data) ==
    [tokens |-> tokens, pos |-> 1, has_extra_data |-> has_extra_data,
     extra_data |-> NoRegistry, origin |-> origin,
     partial_contents |-> NoRegistry, warnings |-> <<>>]

Tags == {"partialdef", "startpartial", "partial"}

Failed(parser, err) == [node |-> TextNode(""), nodelist |-> <<>>, parser |-> parser, err |-> err]

RECURSIVE parse(_, _)

\* A definition that stores the proxy whatever its end directive names.
_define_partial_store_unchecked(parser, partial_name, inline, acceptable_endpartials, body) ==
    IF body.err # NoErr THEN Failed(body.parser, body.err)
    ELSE
    [node |-> DefinePartialNode(partial_name, inline, body.nodelist),
     nodelist |-> <<>>,
     parser |->
        IF body.parser.has_extra_data
        THEN [body.parser EXCEPT !.pos = @ + 1, !.extra_data =
                [present |-> TRUE,
                 map |-> (partial_name :> TemplateProxy(body.nodelist, parser.origin, partial_name))
                            @@ @.map]]
        ELSE [body.parser EXCEPT !.pos = @ + 1, !.partial_contents =
                [present |-> TRUE,
                 map |-> (partial_name :> TemplateProxy(body.nodelist, parser.origin, partial_name))
                            @@ @.map]],
     err |-> NoErr]

\* _define_partial, lines 160-178: the body has been parsed up to an end
\* directive; the end token is consumed and checked, then the proxy is stored.
_define_partial_store(parser, partial_name, inline, acceptable_endpartials, body) ==
    IF body.err # NoErr THEN Failed(body.parser, body.err)
    ELSE
    LET endpartial == body.parser.tokens[body.parser.pos]
        p == [body.parser EXCEPT !.pos = @ + 1]
        proxy == TemplateProxy(body.nodelist, parser.origin, partial_name)
    IN
    IF endpartial.contents \notin acceptable_endpartials
    THEN Failed(p, Error("TemplateSyntaxError",
                         "Invalid block tag: '" \o endpartial.contents[1] \o "'"))
    ELSE
    [node |-> DefinePartialNode(partial_name, inline, body.nodelist),
     nodelist |-> <<>>,
     parser |->
        IF p.has_extra_data
        THEN [p EXCEPT !.extra_data =
                [present |-> TRUE, map |-> (partial_name :> proxy) @@ @.map]]
        ELSE [p EXCEPT !.partial_contents =
                [present |-> TRUE, map |-> (partial_name :> proxy) @@ @.map]],
     err |-> NoErr]

\* A definition that takes only the bare word inline as the modifier and
\* treats any other third word as absent.
_define_partial_inline_exact(parser, token, end_tag) ==
    IF Len(token.contents) \notin {2, 3}
    THEN Failed(parser, Error("TemplateSyntaxError",
                              "'" \o token.contents[1] \o "' tag requires 2-3 arguments"))
    ELSE _define_partial_store(
            parser, token.contents[2],
            IF Len(token.contents) >= 3 /\ token.contents[3] = "inline" THEN "inline" ELSE "",
            {<<end_tag>>, <<end_tag, token.contents[2]>>},
            parse(IF Len(token.contents) >= 3 /\ token.contents[3] # "inline"
                  THEN [parser EXCEPT !.warnings = Append(@,
                          "The 'inline' argument does not have any parameters")]
                  ELSE parser,
                  {<<end_tag>>, <<end_tag, token.contents[2]>>}))

\* def _define_partial(parser, token, end_tag); the begin token is consumed.
\* inline is the third word, or "" (False) when there is none.
_define_partial(parser, token, end_tag) ==
    LET tokens == token.contents IN
    IF Len(tokens) \notin {2, 3}
    THEN Failed(parser, Error("TemplateSyntaxError",
                              "'" \o tokens[1] \o "' tag requires 2-3 arguments"))
    ELSE
    LET partial_name == tokens[2]
        inline == IF Len(tokens) >= 3 THEN tokens[3] ELSE ""
        warned == IF inline # "" /\ inline # "inline"
                  THEN [parser EXCEPT !.warnings = Append(@,
                          "The 'inline' argument does not have any parameters")]
                  ELSE parser
        acceptable_endpartials == {<<end_tag>>, <<end_tag, partial_name>>}
    IN _define_partial_store(parser, partial_name, inline, acceptable_endpartials,
                             parse(warned, acceptable_endpartials))

\* @register.tag(name="partialdef")
partialdef_func(parser, token) == _define_partial(parser, token, "endpartialdef")

\* @register.tag(name="startpartial")
startpartial_func(parser, token) ==
    _define_partial(
        [parser EXCEPT !.warnings = Append(@,
            "The 'startpartial' tag is deprecated; use 'partialdef' instead.")],
        token, "endpartial")

\* A partial tag that always points its node at the origin's attribute.
partial_func_origin_only(parser, token) ==
    LET bits == token.contents IN
    IF Len(bits) # 2
    THEN Failed(parser, Error("TemplateSyntaxError",
                  "'" \o bits[1] \o "' tag requires a single argument 'partial_name'"))
    ELSE [node |-> RenderPartialNode(bits[2],
                      SubDictionaryWrapper("origin", "partial_contents")),
          nodelist |-> <<>>, parser |-> parser, err |-> NoErr]

\* @register.tag(name="partial")
partial_func(parser, token) ==
    LET bits == token.contents IN
    IF Len(bits) # 2
    THEN Failed(parser, Error("TemplateSyntaxError",
                  "'" \o bits[1] \o "' tag requires a single argument 'partial_name'"))
    ELSE [node |-> RenderPartialNode(bits[2],
                      IF parser.has_extra_data
                      THEN SubDictionaryWrapper("extra_data", "partials")
                      ELSE SubDictionaryWrapper("origin", "partial_contents")),
          nodelist |-> <<>>, parser |-> parser, err |-> NoErr]

\* compile_func = self.tags[command]; compile_func(self, token)
compile_func(command, parser, token) ==
    CASE command = "partialdef" -> partialdef_func(parser, token)
      [] command = "startpartial" -> startpartial_func(parser, token)
      [] OTHER -> partial_func(parser, token)

RECURSIVE parse_loop(_, _, _)

\* Parser.parse: the compiled tag's node is appended, or its error raised.
parse_extend(compiled, nodelist, parse_until) ==
    IF compiled.err # NoErr THEN Failed(compiled.parser, compiled.err)
    ELSE parse_loop(compiled.parser, Append(nodelist, compiled.node), parse_until)

\* Parser.parse: the loop over the remaining tokens.
parse_loop(p, nodelist, parse_until) ==
    IF p.pos > Len(p.tokens)
    THEN IF parse_until # {}
         THEN Failed(p, Error("TemplateSyntaxError", "Unclosed tag"))
         ELSE [node |-> TextNode(""), nodelist |-> nodelist,
               parser |-> p, err |-> NoErr]
    ELSE
    LET token == p.tokens[p.pos]
        next == [p EXCEPT !.pos = @ + 1]
    IN
    IF token.type = "text"
    THEN parse_loop(next, Append(nodelist, TextNode(token.contents[1])), parse_until)
    ELSE
    LET command == token.contents[1] IN
    IF <<command>> \in parse_until
    THEN [node |-> TextNode(""), nodelist |-> nodelist, parser |-> p, err |-> NoErr]
    ELSE IF command \notin Tags
    THEN Failed(next, Error("TemplateSyntaxError",
                            "Invalid block tag: '" \o command \o "'"))
    ELSE parse_extend(compile_func(command, next, token), nodelist, parse_until)

\* Parser.parse(parse_until): nodes up to, not including, a block token whose
\* command is in parse_until (the token is put back).
parse(parser, parse_until) == parse_loop(parser, <<>>, parse_until)

----------------------------------------------------------------------------
(* Rendering *)

NoPartialsMessage(key) ==
    "No partials are defined. You are trying to access '" \o key \o "' partial"
UndefinedPartialMessage(key) ==
    "You are trying to access an undefined partial '" \o key \o "'"

\* A lookup that reports a missing registry as a registry without the name.
SubDictionaryWrapper_getitem_one_message(self, key, t) ==
    IF self[1] = "extra_data"
    THEN IF t.extra_data.present /\ key \in DOMAIN t.extra_data.map
         THEN [proxy |-> t.extra_data.map[key], err |-> NoErr]
         ELSE [proxy |-> TemplateProxy(<<>>, t.origin, ""),
               err |-> Error("TemplateSyntaxError", UndefinedPartialMessage(key))]
    ELSE IF t.partial_contents.present /\ key \in DOMAIN t.partial_contents.map
         THEN [proxy |-> t.partial_contents.map[key], err |-> NoErr]
         ELSE [proxy |-> TemplateProxy(<<>>, t.origin, ""),
               err |-> Error("TemplateSyntaxError", UndefinedPartialMessage(key))]

\* SubDictionaryWrapper.__getitem__, on the template the wrapper points into:
\* t.extra_data and t.partial_contents are the parser's extra_data dict and
\* the origin's attribute as they are when the lookup runs.
SubDictionaryWrapper_getitem(self, key, t) ==
    LET partials_content ==
            IF self[1] = "extra_data" THEN t.extra_data ELSE t.partial_contents
    IN
    IF ~partials_content.present
    THEN [proxy |-> TemplateProxy(<<>>, t.origin, ""),
          err |-> Error("TemplateSyntaxError", NoPartialsMessage(key))]
    ELSE IF key \notin DOMAIN partials_content.map
    THEN [proxy |-> TemplateProxy(<<>>, t.origin, ""),
          err |-> Error("TemplateSyntaxError", UndefinedPartialMessage(key))]
    ELSE [proxy |-> partials_content.map[key], err |-> NoErr]

RECURSIVE NodeList_render(_, _)

\* A definition node that emits nothing, inline or not.
DefinePartialNode_render_never(self, t) == [out |-> <<>>, err |-> NoErr]

\* DefinePartialNode.render
DefinePartialNode_render(self, t) ==
    IF self.inline # ""
    THEN NodeList_render(self.nodelist, t)
    ELSE [out |-> <<>>, err |-> NoErr]

\* TemplateProxy.render
TemplateProxy_render(self, t) == NodeList_render(self.nodelist, t)

\* RenderPartialNode.render: self.partial_mapping[self.partial_name].render(context)
RenderPartialNode_found(found, t) ==
    IF found.err # NoErr
    THEN [out |-> <<>>, err |-> found.err]
    ELSE TemplateProxy_render(found.proxy, t)

RenderPartialNode_render(self, t) ==
    RenderPartialNode_found(
        SubDictionaryWrapper_getitem(self.partial_mapping, self.partial_name, t), t)

\* node.render(context)
Node_render(node, t) ==
    CASE node.kind = "text" -> [out |-> <<node.s>>, err |-> NoErr]
      [] node.kind = "define" -> DefinePartialNode_render(node, t)
      [] OTHER -> RenderPartialNode_render(node, t)

\* NodeList.render: the nodes' outputs joined; the first error propagates.
NodeList_join(first, rest) ==
    IF first.err # NoErr THEN [out |-> <<>>, err |-> first.err]
    ELSE IF rest.err # NoErr THEN [out |-> <<>>, err |-> rest.err]
    ELSE [out |-> first.out \o rest.out, err |-> NoErr]

NodeList_render(nodelist, t) ==
    IF nodelist = <<>> THEN [out |-> <<>>, err |-> NoErr]
    ELSE NodeList_join(Node_render(Head(nodelist), t),
                       NodeList_render(Tail(nodelist), t))

----------------------------------------------------------------------------
(* Templates and the wrapped loaders (django.template.loaders) *)

\* Template(contents, origin, ...): compile_nodelist() runs the parser over the
\* whole document.  The template keeps the parser's extra_data; partial_contents
\* is the attribute the tag sets on template.origin.
Template_compiled(r, tokens, origin, has_extra_data) ==
    [ok |-> r.err = NoErr, err |-> r.err,
     nodelist |-> IF r.err = NoErr THEN r.nodelist ELSE <<>>,
     source |-> tokens, origin |-> origin,
     has_extra_data |-> has_extra_data,
     extra_data |-> r.parser.extra_data,
     partial_contents |-> r.parser.partial_contents,
     warnings |-> r.parser.warnings]

Template(tokens, origin, has_extra_data) ==
    Template_compiled(parse(Parser(tokens, origin, has_extra_data), {}),
                      tokens, origin, has_extra_data)

Origin(name, template_name, loader) ==
    [name |-> name, template_name |-> template_name, loader |-> loader]

NoOrigin == Origin(<<>>, <<>>, "")
NoTemplate == Template(<<>>, NoOrigin, FALSE)
NotRendered == [out |-> <<>>, err |-> NoErr]

\* Template.render()
Template_render(t) == NodeList_render(t.nodelist, t)

\* A loader that reads files from its directories (filesystem, app_directories).
Leaf(id, dirs) ==
    [kind |-> "leaf", id |-> id, dirs |-> dirs, has_reset |-> TRUE, loaders |-> <<>>]
\* A third-party loader object that has no reset() method.
Foreign(id, dirs) ==
    [kind |-> "leaf", id |-> id, dirs |-> dirs, has_reset |-> FALSE, loaders |-> <<>>]
\* django.template.loaders.cached.Loader around its own loaders.
Cached(children) ==
    [kind |-> "cached", id |-> "cached", dirs |-> <<>>, has_reset |-> TRUE,
     loaders |-> children]

\* A template name is a path: <<name>> relative to a directory, <<dir, name>>
\* the full path of a file (origin.name).  A leaf loader yields one origin per
\* directory; a full path is only accepted under its own directory (safe_join).
Leaf_get_template_sources(loader, template_name) ==
    LET RECURSIVE from(_)
        from(i) ==
            IF i > Len(loader.dirs) THEN <<>>
            ELSE IF Len(template_name) = 1
            THEN <<Origin(<<loader.dirs[i]>> \o template_name, template_name, loader.id)>>
                 \o from(i + 1)
            ELSE IF template_name[1] = loader.dirs[i]
            THEN <<Origin(template_name, template_name, loader.id)>> \o from(i + 1)
            ELSE from(i + 1)
    IN from(1)

RECURSIVE get_template_sources_of(_, _)
\* loader.get_template_sources(template_name) of a wrapped loader; the cached
\* loader yields from each of its own loaders.
get_template_sources_of(loader, template_name) ==
    IF loader.kind = "cached"
    THEN IF loader.loaders = <<>> THEN <<>>
         ELSE Leaf_get_template_sources(Head(loader.loaders), template_name)
              \o get_template_sources_of(
                    [loader EXCEPT !.loaders = Tail(@)], template_name)
    ELSE Leaf_get_template_sources(loader, template_name)

RECURSIVE Loader_get_template_sources(_, _)
\* Loader.get_template_sources
Loader_get_template_sources(wrapped, template_name) ==
    IF wrapped = <<>> THEN <<>>
    ELSE get_template_sources_of(Head(wrapped), template_name)
         \o Loader_get_template_sources(Tail(wrapped), template_name)

TemplateDoesNotExist(msg, tried) ==
    [type |-> "TemplateDoesNotExist", msg |-> msg, tried |-> tried]

\* The name a path is reported as.
RECURSIVE PathStr(_)
PathStr(path) ==
    IF path = <<>> THEN ""
    ELSE IF Len(path) = 1 THEN path[1]
    ELSE path[1] \o "/" \o PathStr(Tail(path))

\* BaseLoader.get_template(template_name) over the given sources, with
\* Loader.get_contents(origin) = origin.loader.get_contents(origin): the first
\* source whose file exists is compiled; skip is None.
BaseLoader_get_template(sources, template_name, fs, has_extra_data) ==
    LET RECURSIVE try(_, _)
        try(i, tried) ==
            IF i > Len(sources)
            THEN [ok |-> FALSE, template |-> NoTemplate,
                  err |-> TemplateDoesNotExist(PathStr(template_name), tried)]
            ELSE IF sources[i].name \notin DOMAIN fs
            THEN try(i + 1, Append(tried, <<sources[i], "Source does not exist">>))
            ELSE [ok |-> TRUE,
                  template |-> Template(Tokens(fs[sources[i].name]), sources[i],
                                        has_extra_data),
                  err |-> NoErr]
    IN try(1, <<>>)

\* cached.Loader.get_template, after a cache miss: what super().get_template
\* found is remembered under key.  A miss is remembered as a copy of the
\* exception when engine.debug is set and as the bare exception class otherwise;
\* a compile error propagates and nothing is remembered.
Cached_remember(found, key, template_cache, engine_debug) ==
    IF found.ok /\ ~found.template.ok
    THEN [ok |-> FALSE, template |-> NoTemplate, err |-> found.template.err,
          cache |-> template_cache, compiled |-> 1]
    ELSE
    [ok |-> found.ok, template |-> found.template, err |-> found.err,
     cache |-> (key :> [kind |-> IF found.ok THEN "template"
                                 ELSE IF engine_debug THEN "exc" ELSE "class",
                        template |-> found.template, err |-> found.err])
               @@ template_cache,
     compiled |-> IF found.ok THEN 1 ELSE 0]

\* cached.Loader.get_template, on a cache hit: the template is returned, the
\* remembered exception is raised again, or the remembered class is raised
\* anew (with no tried list).
Cached_hit(cached, key, template_cache) ==
    [ok |-> cached.kind = "template", template |-> cached.template,
     err |-> CASE cached.kind = "template" -> NoErr
               [] cached.kind = "class" -> TemplateDoesNotExist(key, <<>>)
               [] OTHER -> cached.err,
     cache |-> template_cache, compiled |-> 0]

\* cached.Loader.get_template(template_name): the cache is keyed by the name
\* the loader is asked for (skip is None).
Cached_get_template(loader, template_name, template_cache, fs, has_extra_data, engine_debug) ==
    IF PathStr(template_name) \in DOMAIN template_cache
    THEN Cached_hit(template_cache[PathStr(template_name)],
                    PathStr(template_name), template_cache)
    ELSE Cached_remember(
            BaseLoader_get_template(
                get_template_sources_of(loader, template_name),
                template_name, fs, has_extra_data),
            PathStr(template_name), template_cache, engine_debug)

----------------------------------------------------------------------------
(* templatetags/partials.py: TemplateProxy.source *)

Min(S) == CHOOSE x \in S : \A y \in S : x <= y
Max(S) == CHOOSE x \in S : \A y \in S : x >= y

\* _START_TAG: {% startpartial|partialdef NAME [inline] %}
START_TAG_matches(token) ==
    /\ token.type = "block"
    /\ Len(token.contents) \in {2, 3}
    /\ token.contents[1] \in {"startpartial", "partialdef"}
    /\ Len(token.contents) = 3 => token.contents[3] = "inline"

\* _END_TAG_OLD / _END_TAG: {% endpartial %} / {% endpartialdef %}
END_TAG_matches(token, end_tag) ==
    /\ token.type = "block"
    /\ token.contents = <<end_tag>>

\* TemplateProxy.find_partial_source.  sspos, sepos, espos are offsets; the
\* slice full_source[sepos:espos] is the tokens sepos+1 .. espos.
find_partial_source(full_source, partial_name) ==
    LET RECURSIVE finditer(_)
        finditer(from) ==
            LET starts == {i \in from..Len(full_source) :
                              START_TAG_matches(full_source[i])}
            IN
            IF starts = {} THEN [result |-> <<>>, err |-> NoErr]
            ELSE
            LET m == Min(starts)
                sepos == m
                starter == full_source[m].contents[1]
                name == full_source[m].contents[2]
                end_tag == IF starter = "startpartial" THEN "endpartial"
                           ELSE "endpartialdef"
                \* end_tag.search(full_source, sepos + 1)
                ends == {j \in 1..Len(full_source) :
                            /\ j - 1 >= sepos + 1
                            /\ END_TAG_matches(full_source[j], end_tag)}
            IN
            IF ends = {}
            THEN [result |-> <<>>,
                  err |-> Error("AssertionError", "End tag must be present")]
            ELSE
            LET espos == Min(ends) - 1 IN
            IF name = partial_name
            THEN [result |-> SubSeq(full_source, sepos + 1, espos), err |-> NoErr]
            ELSE finditer(m + 1)
    IN finditer(1)

\* TemplateProxy.source: the owning document is fetched again through
\* origin.loader under origin.name, and its source is scanned.
TemplateProxy_source(self, leaves, fs, has_extra_data) ==
    LET loader == CHOOSE l \in leaves : l.id = self.origin.loader
        template == BaseLoader_get_template(
                        Leaf_get_template_sources(loader, self.origin.name),
                        self.origin.name, fs, has_extra_data)
    IN IF ~template.ok THEN [result |-> <<>>, err |-> template.err]
       ELSE find_partial_source(template.template.source, self.name)

----------------------------------------------------------------------------
(* loader.py: Loader *)

\* str.rpartition(sep): the split at the last separator.
partition_last(name, sep) ==
    IF {i \in 1..Len(name) : name[i] = sep} = {} THEN <<name, <<>>, <<>>>>
    ELSE <<SubSeq(name, 1, Max({i \in 1..Len(name) : name[i] = sep}) - 1), <<sep>>,
           SubSeq(name, Max({i \in 1..Len(name) : name[i] = sep}) + 1, Len(name))>>

\* str.partition(sep) on a name given as its characters.
partition(name, sep) ==
    LET at == {i \in 1..Len(name) : name[i] = sep} IN
    IF at = {} THEN <<name, <<>>, <<>>>>
    ELSE <<SubSeq(name, 1, Min(at) - 1), <<sep>>, SubSeq(name, Min(at) + 1, Len(name))>>

RECURSIVE Str(_)
\* The string of a sequence of characters.
Str(chars) == IF chars = <<>> THEN "" ELSE Head(chars) \o Str(Tail(chars))

NoProxy == TemplateProxy(<<>>, NoOrigin, "")

\* super().get_template(template_name, skip) of the partials loader: the
\* wrapped loaders' sources are tried in order.
Loader_super_get_template(r, template_cache) ==
    IF r.ok /\ ~r.template.ok
    THEN [ok |-> FALSE, template |-> NoTemplate,
          err |-> r.template.err, cache |-> template_cache, compiled |-> 1]
    ELSE [ok |-> r.ok, template |-> r.template, err |-> r.err,
          cache |-> template_cache, compiled |-> IF r.ok THEN 1 ELSE 0]

\* A fragment lookup without the two try blocks: the AttributeError and the
\* KeyError of the lookup escape.
Loader_get_partial_unguarded(found, template_name, partial_name) ==
    IF ~found.ok \/ partial_name = ""
    THEN [kind |-> IF found.ok THEN "template" ELSE "error",
          template |-> IF found.ok THEN found.template ELSE NoTemplate,
          partial |-> NoProxy, err |-> found.err, cache |-> found.cache,
          consulted |-> FALSE, compiled |-> found.compiled,
          template_name |-> template_name, partial_name |-> partial_name]
    ELSE IF found.template.partial_contents.present
            /\ partial_name \in DOMAIN found.template.partial_contents.map
    THEN [kind |-> "partial", template |-> found.template,
          partial |-> [found.template.partial_contents.map[partial_name]
                            EXCEPT !.engine = "engine"],
          err |-> found.err, cache |-> found.cache,
          consulted |-> TRUE, compiled |-> found.compiled,
          template_name |-> template_name, partial_name |-> partial_name]
    ELSE [kind |-> "error", template |-> NoTemplate, partial |-> NoProxy,
          err |-> Error(IF found.template.partial_contents.present
                        THEN "KeyError" ELSE "AttributeError", partial_name),
          cache |-> found.cache, consulted |-> TRUE, compiled |-> found.compiled,
          template_name |-> template_name, partial_name |-> partial_name]

\* A fragment lookup that takes the record out of the registry it reads.
Loader_get_partial_consuming(found, template_name, partial_name) ==
    IF ~found.ok \/ partial_name = ""
    THEN [kind |-> IF found.ok THEN "template" ELSE "error",
          template |-> IF found.ok THEN found.template ELSE NoTemplate,
          partial |-> NoProxy, err |-> found.err, cache |-> found.cache,
          consulted |-> FALSE, compiled |-> found.compiled,
          template_name |-> template_name, partial_name |-> partial_name]
    ELSE IF found.template.partial_contents.present
            /\ partial_name \in DOMAIN found.template.partial_contents.map
    THEN [kind |-> "partial", template |-> found.template,
          partial |-> [found.template.partial_contents.map[partial_name]
                            EXCEPT !.engine = "engine"],
          err |-> found.err,
          cache |-> IF PathStr(template_name) \in DOMAIN found.cache
                    THEN [found.cache EXCEPT
                            ![PathStr(template_name)].template.partial_contents.map =
                                [n \in DOMAIN @ \ {partial_name} |-> @[n]]]
                    ELSE found.cache,
          consulted |-> TRUE, compiled |-> found.compiled,
          template_name |-> template_name, partial_name |-> partial_name]
    ELSE [kind |-> "error", template |-> NoTemplate, partial |-> NoProxy,
          err |-> TemplateDoesNotExist(partial_name, <<template_name>>),
          cache |-> found.cache, consulted |-> TRUE, compiled |-> found.compiled,
          template_name |-> template_name, partial_name |-> partial_name]

\* Loader.get_template, lines 45-60: found is what the wrapped loaders gave
\* for template_name.  consulted says whether template.origin.partial_contents
\* was read.
Loader_get_partial(found, template_name, partial_name) ==
    LET base == [kind |-> "error", template |-> NoTemplate, partial |-> NoProxy,
                 err |-> found.err, cache |-> found.cache, consulted |-> FALSE,
                 compiled |-> found.compiled,
                 template_name |-> template_name, partial_name |-> partial_name]
    IN
    IF ~found.ok THEN base
    ELSE IF partial_name = ""
    THEN [base EXCEPT !.kind = "template", !.template = found.template]
    ELSE IF ~found.template.partial_contents.present
    THEN [base EXCEPT !.consulted = TRUE,
             !.err = TemplateDoesNotExist(partial_name, <<template_name>>)]
    ELSE IF partial_name \notin DOMAIN found.template.partial_contents.map
    THEN [base EXCEPT !.consulted = TRUE,
             !.err = TemplateDoesNotExist(partial_name, <<template_name>>)]
    ELSE
    LET partial == [found.template.partial_contents.map[partial_name]
                        EXCEPT !.engine = "engine"]
        key == PathStr(template_name)
    IN [base EXCEPT !.kind = "partial", !.consulted = TRUE, !.partial = partial,
          !.template = found.template,
          \* partial.engine = self.engine writes to the proxy held by the
          \* registry of the (cached) template object
          !.cache = IF key \in DOMAIN found.cache
                    THEN [found.cache EXCEPT
                            ![key].template.partial_contents.map[partial_name] = partial]
                    ELSE found.cache]

\* A document lookup that iterates the wrapped loaders' sources even when the
\* only wrapped loader is a cached loader.
Loader_find_template_iterating(wrapped, template_name, template_cache, fs, has_extra_data, engine_debug) ==
    Loader_super_get_template(
        BaseLoader_get_template(
            Loader_get_template_sources(wrapped, template_name),
            template_name, fs, has_extra_data),
        template_cache)

\* Loader.get_template, lines 37-43: the document is found by the wrapped
\* loaders; a cached loader that is the only wrapped loader is asked directly.
Loader_find_template(wrapped, template_name, template_cache, fs, has_extra_data, engine_debug) ==
    IF Len(wrapped) = 1 /\ wrapped[1].kind = "cached"
    THEN Cached_get_template(wrapped[1], template_name, template_cache, fs,
                             has_extra_data, engine_debug)
    ELSE Loader_super_get_template(
            BaseLoader_get_template(
                Loader_get_template_sources(wrapped, template_name),
                template_name, fs, has_extra_data),
            template_cache)

\* A loader that hands the whole requested name to the wrapped loaders.
Loader_split_whole_name(name) ==
    [template_name |-> <<Str(name)>>, partial_name |-> Str(partition(name, "#")[3])]

\* Loader.get_template, line 35: template_name.partition("#")
Loader_split(name) ==
    [template_name |-> <<Str(partition(name, "#")[1])>>,
     partial_name |-> Str(partition(name, "#")[3])]

\* Loader.get_template(template_name, skip=None) with self.loaders = wrapped.
\* template_cache is the wrapped cached loader's get_template_cache; the result
\* says what was returned or raised, the cache afterwards, and how many
\* documents were compiled.
Loader_get_template(wrapped, name, template_cache, fs, has_extra_data, engine_debug) ==
    Loader_get_partial(
        Loader_find_template(wrapped, Loader_split(name).template_name,
                             template_cache, fs, has_extra_data, engine_debug),
        Loader_split(name).template_name, Loader_split(name).partial_name)

\* A reset that stops at the first wrapped loader without reset().
Loader_reset_until_missing(wrapped, template_cache) ==
    LET RECURSIVE each(_, _, _)
        each(i, c, done) ==
            IF i > Len(wrapped) THEN [cache |-> c, done |-> done, raised |-> FALSE]
            ELSE IF ~wrapped[i].has_reset THEN [cache |-> c, done |-> done, raised |-> TRUE]
            ELSE each(i + 1,
                      IF wrapped[i].kind = "cached" THEN <<>> ELSE c,
                      done \cup {i})
    IN each(1, template_cache, {})

\* Loader.reset(): every wrapped loader's reset() is tried; a loader without
\* one raises AttributeError, which is passed over.  The result is the cache
\* afterwards and the wrapped loaders whose reset() ran.
Loader_reset(wrapped, template_cache) ==
    LET RECURSIVE each(_, _, _)
        each(i, c, done) ==
            IF i > Len(wrapped) THEN [cache |-> c, done |-> done, raised |-> FALSE]
            ELSE IF ~wrapped[i].has_reset THEN each(i + 1, c, done)
            ELSE each(i + 1,
                      IF wrapped[i].kind = "cached" THEN <<>> ELSE c,
                      done \cup {i})
    IN each(1, template_cache, {})

----------------------------------------------------------------------------
(* Documents: written, compiled, rendered *)

\* A definition's body is one text, distinct for every position in the
\* document.
BodyAt(i) == <<"B" \o ToString(i)>>
EndForms == {<<>>} \cup {<<m>> : m \in Names}

\* The items a document of Spec is written from.
ItemsAt(i) ==
    {TextItem("T")} \cup {RefItem(n) : n \in Names}
    \cup {DefItem("partialdef", n, inline, BodyAt(i), end) :
            n \in Names, inline \in {"", "inline"}, end \in EndForms}

\* The definitions a document of SourceSpec is written from: every spelling
\* the parser accepts.
BlocksAt(i) ==
    UNION {{DefItem(tag, n, inline, body, end) : end \in {<<>>, <<n>>}} :
            tag \in {"partialdef", "startpartial"}, n \in Names,
            inline \in {"", "inline", "inline=True"}, body \in {<<>>, BodyAt(i)}}

\* The document is the file p of a loader with one directory.
DocLoader == Leaf("locmem", <<"d">>)
DocFS == (<<"d", "p">> :> doc)

NoRequest == [doc |-> <<>>, frag |-> <<>>, name |-> <<>>, op |-> "none"]
NoResult ==
    [kind |-> "none", template |-> NoTemplate, partial |-> NoProxy, err |-> NoErr,
     consulted |-> FALSE, compiled |-> 0, template_name |-> <<>>, partial_name |-> ""]

Write(item) ==
    /\ phase = "edit"
    /\ Len(doc) < MaxItems
    /\ doc' = Append(doc, item)
    /\ UNCHANGED <<appVars, contextVars, hasExtraData, phase, tmpl, rendered, loaderVars>>

WriteBlock(item) ==
    /\ phase = "edit"
    /\ Len(doc) < MaxBlocks
    /\ doc' = Append(doc, item)
    /\ UNCHANGED <<appVars, contextVars, hasExtraData, phase, tmpl, rendered, loaderVars>>

\* template = loader.get_template("p")
Compile ==
    /\ phase = "edit"
    /\ tmpl' = BaseLoader_get_template(
                    Leaf_get_template_sources(DocLoader, <<"p">>),
                    <<"p">>, DocFS, hasExtraData).template
    /\ phase' = IF tmpl'.ok THEN "compiled" ELSE "failed"
    /\ UNCHANGED <<appVars, contextVars, hasExtraData, doc, rendered, loaderVars>>

\* template.render()
Render ==
    /\ phase = "compiled"
    /\ rendered' = Template_render(tmpl)
    /\ phase' = "rendered"
    /\ UNCHANGED <<appVars, contextVars, hasExtraData, doc, tmpl, loaderVars>>

\* No settings are looked at and no proxy is rendered on its own.
NoEngines == [templates |-> <<>>, _engines |-> <<>>]
NoWrapCall == [op |-> "none", name |-> "", before |-> <<>>]
NoContext ==
    [template |-> "", template_name |-> "unknown",
     render_context |-> [template |-> "", depth |-> 1]]
NoRenderCall ==
    [op |-> "none", proxy |-> "", before |-> NoContext, inside |-> NoContext,
     out |-> <<>>, err |-> NoErr]
AppIdle ==
    /\ TEMPLATES = <<>>
    /\ engines = NoEngines
    /\ wrapCall = NoWrapCall
ContextIdle ==
    /\ context = NoContext
    /\ renderCall = NoRenderCall

LoaderIdle ==
    /\ debug = FALSE
    /\ loaders = <<>>
    /\ files = <<>>
    /\ cache = <<>>
    /\ request = NoRequest
    /\ result = NoResult
    /\ resetDone = {}

Init ==
    /\ hasExtraData \in BOOLEAN
    /\ doc = <<>>
    /\ phase = "edit"
    /\ tmpl = NoTemplate
    /\ rendered = NotRendered
    /\ LoaderIdle
    /\ AppIdle
    /\ ContextIdle

Next ==
    \/ \E item \in ItemsAt(Len(doc) + 1) : Write(item)
    \/ Compile
    \/ Render

Spec == Init /\ [][Next]_vars

SourceNext ==
    \/ \E item \in BlocksAt(Len(doc) + 1) : WriteBlock(item)
    \/ Compile
    \/ Render

SourceSpec == Init /\ [][SourceNext]_vars

----------------------------------------------------------------------------
(* The partials loader over its wrapped loaders *)

\* The loader configurations explored: the one wrap_loaders() installs (a
\* cached loader alone), plain loaders tried in order, a loader without
\* reset() ahead of a cached loader, and loaders with no directory (DIRS = []).
LoaderConfigs ==
    { <<Cached(<<Leaf("filesystem", <<"d1">>), Leaf("app_directories", <<"d2">>)>>)>>,
      <<Leaf("filesystem", <<"d1">>), Leaf("app_directories", <<"d2">>)>>,
      <<Foreign("foreign", <<"d1">>), Cached(<<Leaf("app_directories", <<"d2">>)>>)>>,
      <<Cached(<<Leaf("filesystem", <<>>)>>)>>,
      <<Leaf("filesystem", <<>>)>> }

\* All leaf loaders an origin can name.
Leaves ==
    {DocLoader, Leaf("filesystem", <<"d1">>), Leaf("app_directories", <<"d2">>),
     Foreign("foreign", <<"d1">>), Leaf("filesystem", <<>>)}

\* The contents the file d2/p may have.
LoaderDocs ==
    { <<TextItem("T")>>,
      <<DefItem("partialdef", "a", "", BodyAt(1), <<>>), RefItem("a")>>,
      <<DefItem("partialdef", "a", "inline", BodyAt(1), <<>>),
        DefItem("partialdef", "b", "", BodyAt(2), <<>>)>> }

\* The names asked for: a document part (p exists, q does not), then nothing,
\* or '#' and a fragment part.
DocParts == {<<"p">>, <<"q">>}
FragParts == {<<>>, <<"#">>, <<"#", "a">>, <<"#", "b">>, <<"#", "a", "#", "b">>}

\* The call returns or raises; the cached loader keeps its cache.
Returned(r) ==
    /\ result' = [kind |-> r.kind, template |-> r.template,
                  partial |-> r.partial, err |-> r.err,
                  consulted |-> r.consulted, compiled |-> r.compiled,
                  template_name |-> r.template_name,
                  partial_name |-> r.partial_name]
    /\ cache' = r.cache

\* loader.get_template(name)
GetTemplate(d, f) ==
    /\ loaders # <<>>
    /\ Returned(Loader_get_template(loaders, d \o f, cache, files, hasExtraData, debug))
    /\ request' = [doc |-> d, frag |-> f, name |-> d \o f, op |-> "get"]
    /\ UNCHANGED <<appVars, contextVars, hasExtraData, docVars, debug, loaders, files, resetDone>>

WasReset(r) ==
    /\ cache' = r.cache
    /\ resetDone' = r.done
    /\ result' = [NoResult EXCEPT
                    !.kind = IF r.raised THEN "error" ELSE "none",
                    !.err = IF r.raised THEN Error("AttributeError", "reset") ELSE NoErr]

\* django.template.autoreload.template_changed: the file has been written, and
\* reset_loaders() calls reset() on the engine's loader, the partials loader.
TemplateChanged(contents) ==
    /\ loaders # <<>>
    /\ files' = [files EXCEPT ![<<"d2", "p">>] = contents]
    /\ WasReset(Loader_reset(loaders, cache))
    /\ request' = [NoRequest EXCEPT !.op = "reset"]
    /\ UNCHANGED <<appVars, contextVars, hasExtraData, docVars, debug, loaders>>

LoaderInit ==
    /\ hasExtraData \in BOOLEAN
    /\ doc = <<>>
    /\ phase = "edit"
    /\ tmpl = NoTemplate
    /\ rendered = NotRendered
    /\ debug \in BOOLEAN
    /\ loaders \in LoaderConfigs
    /\ \E contents \in LoaderDocs : files = (<<"d2", "p">> :> contents)
    /\ cache = <<>>
    /\ request = NoRequest
    /\ result = NoResult
    /\ resetDone = {}
    /\ AppIdle
    /\ ContextIdle

LoaderNext ==
    \/ \E d \in DocParts, f \in FragParts : GetTemplate(d, f)
    \/ \E contents \in LoaderDocs : TemplateChanged(contents)

LoaderSpec == LoaderInit /\ [][LoaderNext]_vars

----------------------------------------------------------------------------
(* Properties of documents (Spec, SourceSpec) *)

Count(x, seq) == Cardinality({j \in 1..Len(seq) : seq[j] = x})

\* Where the document defines and references the name n.
DefsOf(n) == {i \in 1..Len(doc) : doc[i].kind = "def" /\ doc[i].name = n}
RefsOf(n) == {i \in 1..Len(doc) : doc[i].kind = "ref" /\ doc[i].name = n}
AllDefs == {i \in 1..Len(doc) : doc[i].kind = "def"}
AllRefs == {i \in 1..Len(doc) : doc[i].kind = "ref"}
\* The references to a name the document does not define.
UndefinedRefs == {i \in AllRefs : DefsOf(doc[i].name) = {}}
\* The definitions whose end directive carries another name.
BadEnds == {i \in AllDefs : doc[i].end \notin {<<>>, <<doc[i].name>>}}

\* The registry of a compiled document, at the location the parser uses.
Registry(t) == IF t.has_extra_data THEN t.extra_data ELSE t.partial_contents

\* What a document in which every referenced name is defined once is meant to
\* emit: its texts in place, a definition's body at each reference to it, and
\* at the definition itself only when it is inline.
Emits(i) ==
    CASE doc[i].kind = "text" -> doc[i].body
      [] doc[i].kind = "ref" -> doc[Max(DefsOf(doc[i].name))].body
      [] OTHER -> IF doc[i].inline # "" THEN doc[i].body ELSE <<>>

RECURSIVE EmitsFrom(_)
EmitsFrom(i) == IF i > Len(doc) THEN <<>> ELSE Emits(i) \o EmitsFrom(i + 1)

EveryRefDefinedOnce ==
    /\ AllRefs # {}
    /\ \A i \in AllRefs : Cardinality(DefsOf(doc[i].name)) = 1

\* C1: a document in which each referenced name has one definition renders the
\* definition's body at every reference site, whether the reference stands
\* before or after the definition; the reference node holds only the handle to
\* the registry location, which is read when the node is rendered.
C1_ReferenceRendersBody ==
    /\ phase = "rendered" /\ EveryRefDefinedOnce
            => rendered = [out |-> EmitsFrom(1), err |-> NoErr]
    /\ phase \in {"compiled", "rendered"}
            => \A k \in 1..Len(tmpl.nodelist) :
                    tmpl.nodelist[k].kind = "render"
                        => tmpl.nodelist[k].partial_mapping
                                \in {<<"extra_data", "partials">>,
                                     <<"origin", "partial_contents">>}

\* A rendered document whose reference comes before its definition.
C1_Witness ==
    /\ phase = "rendered" /\ EveryRefDefinedOnce
    /\ \E i, j \in 1..Len(doc) :
            /\ i < j
            /\ doc[i].kind = "ref" /\ doc[j].kind = "def"
            /\ doc[i].name = doc[j].name /\ doc[j].inline = ""
            /\ Count(doc[j].body[1], rendered.out) = 1

\* C3: a fragment defined once is emitted once per reference when it is not
\* inline, and once more, at its definition, when it is inline.
C3_InlineEmitsAtDefinition ==
    phase = "rendered" /\ rendered.err = NoErr
        => \A n \in Names : \A i \in DefsOf(n) :
              Cardinality(DefsOf(n)) = 1
                => Count(doc[i].body[1], rendered.out)
                      = Cardinality(RefsOf(n)) + (IF doc[i].inline # "" THEN 1 ELSE 0)

\* A rendered document with an inline definition that is also referenced, and
\* a definition that is not inline and not referenced.
C3_Witness ==
    /\ phase = "rendered" /\ rendered.err = NoErr
    /\ \E i, j \in AllDefs :
          /\ doc[i].inline = "inline" /\ Cardinality(DefsOf(doc[i].name)) = 1
          /\ RefsOf(doc[i].name) # {}
          /\ Count(doc[i].body[1], rendered.out) = 2
          /\ doc[j].inline = "" /\ Count(doc[j].body[1], rendered.out) = 0

\* C4: a reference to a name the document does not define never fails the
\* compilation; rendering fails with TemplateSyntaxError, whose message says
\* that no partials are defined when the document defines none, and that the
\* name is undefined otherwise; the two messages differ and name the fragment.
C4_UndefinedPartialMessages ==
    /\ phase = "failed" => BadEnds # {}
    /\ phase = "rendered" /\ UndefinedRefs # {} =>
          LET n == doc[Min(UndefinedRefs)].name IN
          /\ rendered.err.type = "TemplateSyntaxError"
          /\ rendered.out = <<>>
          /\ rendered.err.msg =
                IF AllDefs = {}
                THEN "No partials are defined. You are trying to access '" \o n \o "' partial"
                ELSE "You are trying to access an undefined partial '" \o n \o "'"
    /\ \A n, m \in Names :
          "No partials are defined. You are trying to access '" \o n \o "' partial"
            # "You are trying to access an undefined partial '" \o m \o "'"

\* A rendering that failed where other fragments are defined.
C4_Witness ==
    /\ phase = "rendered" /\ UndefinedRefs # {} /\ AllDefs # {}
    /\ rendered.err.type = "TemplateSyntaxError"

\* The definitions ahead of the first one whose end directive is wrong.
DefsBefore(n, i) == {j \in DefsOf(n) : j < i}

\* C5: compilation succeeds exactly when every end directive carries no name
\* or the opening name; otherwise it fails with a template syntax error and
\* the registry holds no record of the failed definition, only those of the
\* definitions before it.
C5_EndDirectiveName ==
    phase # "edit" =>
        /\ tmpl.ok <=> BadEnds = {}
        /\ ~tmpl.ok =>
              /\ tmpl.err.type = "TemplateSyntaxError"
              /\ DOMAIN Registry(tmpl).map
                    = {n \in Names : DefsBefore(n, Min(BadEnds)) # {}}
              /\ \A n \in DOMAIN Registry(tmpl).map :
                    Registry(tmpl).map[n].nodelist
                        = <<TextNode(doc[Max(DefsBefore(n, Min(BadEnds)))].body[1])>>

\* A compilation that accepted an end directive repeating the opening name
\* and then failed on a later one carrying another name.
C5_Witness ==
    /\ phase = "failed" /\ BadEnds # {}
    /\ \E i \in AllDefs :
          /\ i < Min(BadEnds)
          /\ doc[i].end = <<doc[i].name>>
          /\ doc[i].name \in DOMAIN Registry(tmpl).map

\* The text between a definition's directives, as source.
BodySource(item) == [k \in 1..Len(item.body) |-> TextToken(item.body[k])]

\* C6: the source of every registered proxy is the text of the document
\* between the begin directive and the end directive of its definition.
C6_SourceIsVerbatimBody ==
    phase \in {"compiled", "rendered"} =>
        \A n \in DOMAIN Registry(tmpl).map :
            TemplateProxy_source(Registry(tmpl).map[n], {DocLoader}, DocFS, hasExtraData)
                = [result |-> BodySource(doc[Max(DefsOf(n))]), err |-> NoErr]

----------------------------------------------------------------------------
(* Properties of the loader (LoaderSpec) *)

\* The leaf loaders behind the wrapped loaders, in the order they are asked.
RECURSIVE FlatLeaves(_)
FlatLeaves(ls) ==
    IF ls = <<>> THEN <<>>
    ELSE (IF Head(ls).kind = "cached" THEN Head(ls).loaders ELSE <<Head(ls)>>)
         \o FlatLeaves(Tail(ls))

\* The sources of template d, one per directory of every leaf loader.
RECURSIVE SourcesIn(_, _, _)
SourcesIn(leaves, k, d) ==
    IF leaves = <<>> THEN <<>>
    ELSE IF k > Len(Head(leaves).dirs) THEN SourcesIn(Tail(leaves), 1, d)
    ELSE <<[name |-> <<Head(leaves).dirs[k], d>>, template_name |-> <<d>>,
            loader |-> Head(leaves).id]>>
         \o SourcesIn(leaves, k + 1, d)

AllSources(d) == SourcesIn(FlatLeaves(loaders), 1, d)

\* What the request asked for: the document name before the first '#', and
\* the fragment name after it.
AskedDoc(req) == Str(req.doc)
AskedFragment(req) == IF req.frag = <<>> THEN "" ELSE Str(Tail(req.frag))

\* The file the wrapped loaders find for document d, if any.
Found(d) == {i \in 1..Len(AllSources(d)) : AllSources(d)[i].name \in DOMAIN files}
Resolves(d) == Found(d) # {}

\* The whole document d, compiled.
Compiled(d) ==
    Template(Tokens(files[AllSources(d)[Min(Found(d))].name]),
             AllSources(d)[Min(Found(d))], hasExtraData)

\* The fragment names document d defines.
DefinedIn(d) ==
    LET items == files[AllSources(d)[Min(Found(d))].name]
    IN {items[i].name : i \in {j \in 1..Len(items) : items[j].kind = "def"}}

SoleCached == Len(loaders) = 1 /\ loaders[1].kind = "cached"

\* C2: get_template("D#F") returns the proxy the parser registered for F while
\* compiling D whenever a reference to F inside D would resolve, and fails only
\* when that reference would fail, wherever the parser keeps the registry.
C2_FragmentLookupMatchesRegistry ==
    request.op = "get" /\ AskedFragment(request) # "" /\ Resolves(AskedDoc(request)) =>
        LET registry == Registry(Compiled(AskedDoc(request)))
            name == AskedFragment(request)
        IN IF registry.present /\ name \in DOMAIN registry.map
           THEN /\ result.kind = "partial"
                /\ result.partial.name = name
                /\ result.partial.nodelist = registry.map[name].nodelist
           ELSE result.kind = "error"

\* C7: the requested name is split at its first '#'; with no fragment name the
\* compiled document is returned as the wrapped loaders gave it and the
\* registry is not read.
C7_SplitAtFirstSeparator ==
    request.op = "get" =>
        /\ result.template_name = <<AskedDoc(request)>>
        /\ result.partial_name = AskedFragment(request)
        /\ AskedFragment(request) = "" /\ Resolves(AskedDoc(request)) =>
              /\ result.kind = "template"
              /\ ~result.consulted
              /\ result.template.nodelist = Compiled(AskedDoc(request)).nodelist
              /\ result.template.source = Compiled(AskedDoc(request)).source
              /\ result.template.origin = Compiled(AskedDoc(request)).origin
              /\ SoleCached => result.template = cache[AskedDoc(request)].template

\* A name with a second '#', and a name that ends in '#'.
C7_Witness ==
    /\ request.op = "get"
    /\ \/ /\ request.frag = <<"#", "a", "#", "b">>
          /\ result.partial_name = "a#b"
       \/ /\ request.frag = <<"#">> /\ result.kind = "template"

\* C8: asking for a fragment the resolved document does not define raises
\* TemplateDoesNotExist naming the fragment, with the document name as its
\* tried list, whether the document has no registry or one without the name.
C8_MissingFragmentNotFound ==
    /\ request.op = "get"
    /\ AskedFragment(request) # ""
    /\ Resolves(AskedDoc(request))
    /\ AskedFragment(request) \notin DefinedIn(AskedDoc(request))
    => /\ result.kind = "error"
       /\ result.err = [type |-> "TemplateDoesNotExist",
                        msg |-> AskedFragment(request),
                        tried |-> <<<<AskedDoc(request)>>>>]

\* A fragment missing from a registry that holds another one.
C8_Witness ==
    /\ request.op = "get" /\ result.kind = "error"
    /\ AskedFragment(request) = "b"
    /\ Resolves(AskedDoc(request))
    /\ result.consulted
    /\ Compiled(AskedDoc(request)).partial_contents.present
    /\ DOMAIN Compiled(AskedDoc(request)).partial_contents.map = {"a"}

\* The tried list that names every source of document d.
TriedAll(d) == [i \in 1..Len(AllSources(d)) |-> <<AllSources(d)[i], "Source does not exist">>]

\* C9 as stated: when no wrapped loader finds the document part, the error's
\* tried list is non-empty and holds every source attempted, in loader order,
\* each carrying the document name.
C9_TriedNonEmpty ==
    request.op = "get" /\ ~Resolves(AskedDoc(request)) =>
        /\ result.kind = "error"
        /\ result.err.type = "TemplateDoesNotExist"
        /\ result.err.tried # <<>>
        /\ result.err.tried = TriedAll(AskedDoc(request))

\* C9, amended: the error is TemplateDoesNotExist for the document name.  When
\* the wrapped loaders are searched (always unless a lone cached loader
\* remembers the name) the tried list holds every source they yield for the
\* document name, in loader order, so it is empty only when they yield none; a
\* remembered miss carries the same list when engine.debug is set and an empty
\* list otherwise.
C9_TriedNamesDocumentSources ==
    [][ request'.op = "get" /\ ~Resolves(AskedDoc(request')) =>
          /\ result'.kind = "error"
          /\ result'.err.type = "TemplateDoesNotExist"
          /\ result'.err.msg = AskedDoc(request')
          /\ result'.err.tried =
                IF SoleCached /\ AskedDoc(request') \in DOMAIN cache /\ ~debug
                THEN <<>>
                ELSE TriedAll(AskedDoc(request')) ]_vars

\* A compound name whose document is missing, with two sources tried.
C9_Witness ==
    /\ request.op = "get" /\ request.name = <<"q", "#", "a">>
    /\ result.kind = "error"
    /\ Len(result.err.tried) = 2
    /\ result.err.tried[1][1].template_name = <<"q">>

\* C10: reset() runs the reset of every wrapped loader that has one, also
\* after a loader that has none, and does not raise; the cached loader's cache
\* is empty afterwards and the next request that finds its document compiles it.
C10_ResetReachesEveryLoader ==
    [][ /\ request'.op = "reset" =>
              /\ result'.kind # "error"
              /\ resetDone' = {i \in 1..Len(loaders) : loaders[i].has_reset}
              /\ cache' = <<>>
        /\ request.op = "reset" /\ request'.op = "get"
           /\ Resolves(AskedDoc(request')) => result'.compiled = 1 ]_vars

\* A reset that passed over a loader without reset() and reached the cached
\* loader behind it.
C10_Witness ==
    /\ request.op = "reset"
    /\ Len(loaders) = 2 /\ ~loaders[1].has_reset /\ loaders[2].kind = "cached"
    /\ resetDone = {2}

\* The body of the last definition of n in the file of document d.
LastBodyIn(d, n) ==
    LET items == files[AllSources(d)[Min(Found(d))].name]
    IN items[Max({j \in 1..Len(items) : items[j].kind = "def" /\ items[j].name = n})].body

\* A compiled document with the engine attribute of its proxies left out.
WithoutEngine(t) ==
    [t EXCEPT !.partial_contents.map = [n \in DOMAIN @ |-> [@[n] EXCEPT !.engine = ""]]]

----------------------------------------------------------------------------
(* Duplicate definitions (Spec) *)

\* The registry holds one record per name the document defines, built from
\* the last definition of the name.
LastDefinitionRegistered ==
    /\ DOMAIN Registry(tmpl).map = {n \in Names : DefsOf(n) # {}}
    /\ \A n \in DOMAIN Registry(tmpl).map :
          /\ Registry(tmpl).map[n].name = n
          /\ Registry(tmpl).map[n].nodelist = <<TextNode(doc[Max(DefsOf(n))].body[1])>>

\* Every reference of a rendered document emits the last definition's body.
ReferencesRenderLastDefinition ==
    phase = "rendered" /\ UndefinedRefs = {}
        => rendered = [out |-> EmitsFrom(1), err |-> NoErr]

\* The loader's answer r for the fragment n of the document renders the last
\* definition's body.
LoaderRendersLastDefinition(r, n) ==
    /\ r.kind = "partial"
    /\ TemplateProxy_render(r.partial, r.template)
          = [out |-> doc[Max(DefsOf(n))].body, err |-> NoErr]

\* C16: the registry of a compiled document holds one record per name it
\* defines, the one of the last definition, and both the references in the
\* document and Loader.get_template("p#name") render that definition's body.
C16_LastDefinitionWins ==
    phase \in {"compiled", "rendered"} =>
        /\ LastDefinitionRegistered
        /\ ReferencesRenderLastDefinition
        /\ \A n \in Names : DefsOf(n) # {} =>
              LoaderRendersLastDefinition(
                  Loader_get_template(<<DocLoader>>, <<"p", "#", n>>, <<>>, DocFS,
                                      hasExtraData, FALSE), n)

----------------------------------------------------------------------------
(* Deprecated spellings (SourceSpec) *)

\* The same definition in the current spelling: partialdef / endpartialdef,
\* and the bare word inline where a modifier is given.
Modern(item) ==
    [item EXCEPT !.tag = "partialdef", !.inline = IF @ = "" THEN "" ELSE "inline"]
ModernDoc == [i \in 1..Len(doc) |-> Modern(doc[i])]

\* The uses of a deprecated construct in the document.
DeprecatedTags == {i \in AllDefs : doc[i].tag = "startpartial"}
DeprecatedModifiers == {i \in AllDefs : doc[i].inline \notin {"", "inline"}}

DeprecationMessages ==
    {"The 'startpartial' tag is deprecated; use 'partialdef' instead.",
     "The 'inline' argument does not have any parameters"}

\* t is the compiled document and m the compiled document in the current
\* spelling: they differ in their warnings only.
SameButWarnings(t, m) ==
    /\ t.ok /\ m.ok
    /\ Registry(t) = Registry(m)
    /\ Template_render(t) = Template_render(m)
    /\ m.warnings = <<>>
    /\ Len(t.warnings) = Cardinality(DeprecatedTags) + Cardinality(DeprecatedModifiers)
    /\ \A k \in 1..Len(t.warnings) : t.warnings[k] \in DeprecationMessages
    /\ Count("The 'startpartial' tag is deprecated; use 'partialdef' instead.", t.warnings)
          = Cardinality(DeprecatedTags)

\* C13: a document compiles whatever deprecated spellings its definitions
\* use, with the registry and the rendered output of the same document in the
\* current spelling, and with one warning per use of a deprecated construct.
C13_DeprecatedSpellingsOnlyWarn ==
    /\ phase # "failed"
    /\ phase \in {"compiled", "rendered"} =>
          SameButWarnings(tmpl, Template(Tokens(ModernDoc), tmpl.origin, hasExtraData))
    /\ phase = "rendered" =>
          rendered = Template_render(Template(Tokens(ModernDoc), tmpl.origin, hasExtraData))

\* A rendered document with a startpartial definition whose modifier has the
\* parameter form: two warnings, and the body emitted in place.
C13_Witness ==
    /\ phase = "rendered" /\ Len(doc) = 1
    /\ doc[1].tag = "startpartial" /\ doc[1].inline = "inline=True"
    /\ doc[1].body # <<>>
    /\ Len(tmpl.warnings) = 2
    /\ rendered = [out |-> doc[1].body, err |-> NoErr]

----------------------------------------------------------------------------
(* apps.py: wrap_loaders over settings.TEMPLATES *)

MaxEngines == 2

\* An entry of a loaders list: a dotted path, or a (path, args) pair written
\* as a tuple or as a list.
StrEntry(path) == [form |-> "str", path |-> path, args |-> <<>>]
TupleEntry(path, args) == [form |-> "tuple", path |-> path, args |-> args]
ListEntry(path, args) == [form |-> "list", path |-> path, args |-> args]

default_loaders ==
    <<StrEntry("django.template.loaders.filesystem.Loader"),
      StrEntry("django.template.loaders.app_directories.Loader")>>
cached_loaders == <<TupleEntry("django.template.loaders.cached.Loader", default_loaders)>>
partial_loaders == <<TupleEntry("template_partials.loader.Loader", cached_loaders)>>

\* One dict of settings.TEMPLATES.  NAME is "" when the key is absent, BACKEND
\* is the dotted path as its components, loaders is <<>> when OPTIONS has no
\* "loaders" key, APP_DIRS is "absent" or "True".
TemplateConfig(NAME, BACKEND, has_OPTIONS, has_loaders, loaders_option, APP_DIRS) ==
    [NAME |-> NAME, BACKEND |-> BACKEND, has_OPTIONS |-> has_OPTIONS,
     has_loaders |-> has_loaders, loaders |-> loaders_option, APP_DIRS |-> APP_DIRS]

\* engine_name = template_config.get("NAME"), or BACKEND.split(".")[-2]
engine_name(template_config) ==
    IF template_config.NAME # "" THEN template_config.NAME
    ELSE template_config.BACKEND[Len(template_config.BACKEND) - 1]

\* loaders = template_config.setdefault("OPTIONS", {}).get("loaders", [])
loaders_of(template_config) ==
    IF template_config.has_OPTIONS /\ template_config.has_loaders
    THEN template_config.loaders ELSE <<>>

already_configured(loaders_option) ==
    /\ loaders_option # <<>>
    /\ loaders_option[1].form = "tuple"
    /\ loaders_option[1].path = "template_partials.loader.Loader"

\* A wrap_loaders that installs its loaders whatever is configured.
wrap_config_always(template_config) ==
    [template_config EXCEPT !.has_OPTIONS = TRUE, !.has_loaders = TRUE,
                            !.loaders = partial_loaders, !.APP_DIRS = "absent"]

\* wrap_loaders, lines 21-38, on the configuration of the engine called name.
wrap_config(template_config) ==
    IF already_configured(loaders_of(template_config))
    THEN [template_config EXCEPT !.has_OPTIONS = TRUE]
    ELSE [template_config EXCEPT !.has_OPTIONS = TRUE, !.has_loaders = TRUE,
                                 !.loaders = partial_loaders, !.APP_DIRS = "absent"]

\* wrap_loaders(name), lines 16-39: the first configuration whose engine is
\* called name is wrapped, then the loop breaks.
wrap_loaders(settings_TEMPLATES, name) ==
    IF {i \in 1..Len(settings_TEMPLATES) : engine_name(settings_TEMPLATES[i]) = name} = {}
    THEN settings_TEMPLATES
    ELSE [settings_TEMPLATES EXCEPT
            ![Min({i \in 1..Len(settings_TEMPLATES) :
                        engine_name(settings_TEMPLATES[i]) = name})] = wrap_config(@)]

\* wrap_loaders, lines 41-44: del engines.templates raises AttributeError when
\* the cached property was never computed, and the block is left.
wrap_loaders_reevaluate(handler) ==
    IF handler.templates = <<>> THEN handler ELSE NoEngines

\* Engine.loaders of the engine built from a configuration: OPTIONS["loaders"],
\* or the host's default, a cached loader over filesystem and, with APP_DIRS,
\* app_directories.
Engine_loaders(template_config) ==
    IF template_config.has_OPTIONS /\ template_config.has_loaders
    THEN template_config.loaders
    ELSE <<TupleEntry("django.template.loaders.cached.Loader",
              <<StrEntry("django.template.loaders.filesystem.Loader")>>
              \o (IF template_config.APP_DIRS = "True"
                  THEN <<StrEntry("django.template.loaders.app_directories.Loader")>>
                  ELSE <<>>))>>

\* django.template.engines[alias]: the engine is built once, from the
\* templates the handler computed from the settings when first asked.
EngineHandler_getitem(handler, settings_TEMPLATES, alias) ==
    IF alias \in DOMAIN handler._engines THEN handler
    ELSE IF handler.templates = <<>>
    THEN IF \E i \in 1..Len(settings_TEMPLATES) : engine_name(settings_TEMPLATES[i]) = alias
         THEN [templates |-> <<settings_TEMPLATES>>,
               _engines |-> (alias :> Engine_loaders(
                    settings_TEMPLATES[CHOOSE i \in 1..Len(settings_TEMPLATES) :
                                            engine_name(settings_TEMPLATES[i]) = alias]))]
         ELSE [handler EXCEPT !.templates = <<settings_TEMPLATES>>]
    ELSE IF \E i \in 1..Len(handler.templates[1]) : engine_name(handler.templates[1][i]) = alias
         THEN [handler EXCEPT !._engines = (alias :> Engine_loaders(
                    handler.templates[1][CHOOSE i \in 1..Len(handler.templates[1]) :
                                            engine_name(handler.templates[1][i]) = alias])) @@ @]
         ELSE handler

\* The configurations explored for one engine.
Backends ==
    {<<"django", "template", "backends", "django", "DjangoTemplates">>,
     <<"django", "template", "backends", "jinja2", "Jinja2">>}
LoaderOptions ==
    {<<>>, default_loaders, partial_loaders,
     <<TupleEntry("template_partials.loader.Loader",
                  <<StrEntry("django.template.loaders.filesystem.Loader")>>)>>,
     <<ListEntry("template_partials.loader.Loader", cached_loaders)>>}
EngineConfigs ==
    {TemplateConfig(n, b, o, FALSE, <<>>, a) :
        n \in {"", "alt"}, b \in Backends, o \in BOOLEAN, a \in {"absent", "True"}}
    \cup {TemplateConfig(n, b, TRUE, TRUE, l, "absent") :
        n \in {"", "alt"}, b \in Backends, l \in LoaderOptions}
EngineNames == {"django", "jinja2", "alt"}

\* settings.TEMPLATES so far, with every engine name used once.
AddEngine(template_config) ==
    /\ wrapCall.op = "none"
    /\ Len(TEMPLATES) < MaxEngines
    /\ \A i \in 1..Len(TEMPLATES) : engine_name(TEMPLATES[i]) # engine_name(template_config)
    /\ TEMPLATES' = Append(TEMPLATES, template_config)
    /\ UNCHANGED <<engines, wrapCall, contextVars, hasExtraData, docVars, loaderVars>>

\* wrap_loaders(name)
WrapLoaders(name) ==
    /\ TEMPLATES # <<>>
    /\ TEMPLATES' = wrap_loaders(TEMPLATES, name)
    /\ engines' = wrap_loaders_reevaluate(engines)
    /\ wrapCall' = [op |-> "wrap", name |-> name, before |-> TEMPLATES]
    /\ UNCHANGED <<contextVars, hasExtraData, docVars, loaderVars>>

\* django.template.engines[alias]
EngineGet(alias) ==
    /\ TEMPLATES # <<>>
    /\ engines' = EngineHandler_getitem(engines, TEMPLATES, alias)
    /\ wrapCall' = [op |-> "engine", name |-> alias, before |-> TEMPLATES]
    /\ UNCHANGED <<TEMPLATES, contextVars, hasExtraData, docVars, loaderVars>>

WrapInit ==
    /\ hasExtraData = FALSE
    /\ doc = <<>>
    /\ phase = "edit"
    /\ tmpl = NoTemplate
    /\ rendered = NotRendered
    /\ LoaderIdle
    /\ AppIdle
    /\ ContextIdle

WrapNext ==
    \/ \E template_config \in EngineConfigs : AddEngine(template_config)
    \/ \E name \in EngineNames \cup {"other"} : WrapLoaders(name)
    \/ \E alias \in EngineNames : EngineGet(alias)

WrapSpec == WrapInit /\ [][WrapNext]_vars

----------------------------------------------------------------------------
(* Properties of wrap_loaders (WrapSpec) *)

\* The engine's outermost loader is the partials loader around a cached loader.
PartialsOverCached(loaders_option) ==
    /\ loaders_option # <<>>
    /\ loaders_option[1].form # "str"
    /\ loaders_option[1].path = "template_partials.loader.Loader"
    /\ loaders_option[1].args # <<>>
    /\ loaders_option[1].args[1].path = "django.template.loaders.cached.Loader"

\* The configuration already names the partials loader first, as a tuple.
LedByPartials(template_config) ==
    /\ template_config.has_OPTIONS /\ template_config.has_loaders
    /\ template_config.loaders # <<>>
    /\ template_config.loaders[1].form = "tuple"
    /\ template_config.loaders[1].path = "template_partials.loader.Loader"

\* C14 as stated: after wrap_loaders(name) the engine called name has the
\* partials loader outermost, wrapping a cached loader; no other engine's
\* configuration has changed; a second call changes nothing.
C14_OutermostWrapsCached ==
    wrapCall.op = "wrap" =>
        /\ Len(TEMPLATES) = Len(wrapCall.before)
        /\ \A i \in 1..Len(TEMPLATES) :
              IF engine_name(wrapCall.before[i]) = wrapCall.name
              THEN PartialsOverCached(Engine_loaders(TEMPLATES[i]))
              ELSE TEMPLATES[i] = wrapCall.before[i]
        /\ wrap_loaders(TEMPLATES, wrapCall.name) = TEMPLATES

\* C14, amended: wrap_loaders(name) changes the configuration of the engine
\* called name only, and only when its loaders are not already led by the
\* partials loader: then the loaders become the partials loader around a
\* cached loader around filesystem and app_directories, and APP_DIRS is
\* dropped.  A configuration already led by the partials loader is left as it
\* is, whatever that loader wraps.  The engines built before the call are
\* dropped, and calling wrap_loaders(name) again changes nothing.
C14_WrapsOnceUnlessConfigured ==
    [][ wrapCall'.op = "wrap" =>
          /\ Len(TEMPLATES') = Len(TEMPLATES)
          /\ \A i \in 1..Len(TEMPLATES) :
                IF engine_name(TEMPLATES[i]) # wrapCall'.name \/ LedByPartials(TEMPLATES[i])
                THEN TEMPLATES'[i] = TEMPLATES[i]
                ELSE /\ TEMPLATES'[i].NAME = TEMPLATES[i].NAME
                     /\ TEMPLATES'[i].BACKEND = TEMPLATES[i].BACKEND
                     /\ TEMPLATES'[i].APP_DIRS = "absent"
                     /\ Engine_loaders(TEMPLATES'[i]) =
                          <<TupleEntry("template_partials.loader.Loader",
                              <<TupleEntry("django.template.loaders.cached.Loader",
                                  <<StrEntry("django.template.loaders.filesystem.Loader"),
                                    StrEntry("django.template.loaders.app_directories.Loader")>>)>>)>>
          /\ engines'._engines = <<>> /\ engines'.templates = <<>>
          /\ wrapCall.op = "wrap" /\ wrapCall.name = wrapCall'.name
                => TEMPLATES' = TEMPLATES ]_vars

\* A call that wrapped the second of two engines, which had APP_DIRS set, and
\* left the first as it was; no engine built before the call is kept.
C14_Witness ==
    /\ wrapCall.op = "wrap"
    /\ Len(TEMPLATES) = 2
    /\ engine_name(TEMPLATES[2]) = wrapCall.name
    /\ wrapCall.before[2].APP_DIRS = "True"
    /\ PartialsOverCached(Engine_loaders(TEMPLATES[2]))
    /\ TEMPLATES[1] = wrapCall.before[1]
    /\ engines = NoEngines

----------------------------------------------------------------------------
(* TemplateProxy.render on a context object *)

MaxDepth == 3

\* The proxy as the value of context.template and render_context.template.
ProxyId(self) == "partial " \o self.name

\* context.render_context.push_state(self): the render context's template is
\* the proxy and a new scope is pushed, until the block is left.
push_state(ctx, self) ==
    [ctx EXCEPT !.render_context = [template |-> ProxyId(self), depth |-> @.depth + 1]]

\* context.bind_template(self), then context.template_name = self.name
bind_template(ctx, self) ==
    [ctx EXCEPT !.template = ProxyId(self), !.template_name = self.name]

\* The context while self._render(context) runs.
TemplateProxy_render_inside(self, ctx) ==
    IF ctx.template = ""
    THEN bind_template(push_state(ctx, self), self)
    ELSE push_state(ctx, self)

\* An exit that leaves the context without a template, whatever was bound.
TemplateProxy_render_exit_unbound(self, ctx, inside) ==
    [inside EXCEPT !.template = "", !.render_context = ctx.render_context]

\* The context when render is left, by return or by exception: bind_template
\* unbinds the template it bound, push_state puts the render context's
\* template back and pops its scope.
TemplateProxy_render_exit(self, ctx, inside) ==
    [inside EXCEPT !.template = IF ctx.template = "" THEN "" ELSE @,
                   !.render_context = ctx.render_context]

\* TemplateProxy.render(context), lines 66-74: the output or the exception of
\* the body, the context inside and the context afterwards.
TemplateProxy_render_call(self, ctx, t) ==
    [op |-> "render", proxy |-> self.name, before |-> ctx,
     inside |-> TemplateProxy_render_inside(self, ctx),
     out |-> TemplateProxy_render(self, t).out,
     err |-> TemplateProxy_render(self, t).err]

\* The documents whose registry a proxy's body is rendered against: one
\* without definitions and one that defines b.
ContextDocs ==
    {<<TextItem("T")>>, <<DefItem("partialdef", "b", "", BodyAt(1), <<>>)>>}

\* The proxies rendered: a body of text, and a body that references b.
ContextProxies ==
    {TemplateProxy(<<TextNode("B")>>, Origin(<<"d", "p">>, <<"p">>, "locmem"), "a"),
     TemplateProxy(<<TextNode("B"),
                     RenderPartialNode("b", IF hasExtraData
                        THEN SubDictionaryWrapper("extra_data", "partials")
                        ELSE SubDictionaryWrapper("origin", "partial_contents"))>>,
                   Origin(<<"d", "p">>, <<"p">>, "locmem"), "c")}

\* The contexts a render may be handed: a new one, or one in which a template
\* is being rendered.
Contexts ==
    {NoContext}
    \cup {[template |-> bound, template_name |-> bound,
           render_context |-> [template |-> current, depth |-> depth]] :
            bound \in {"p", "partial a"}, current \in {"p", "partial a", "partial c"},
            depth \in 2..MaxDepth}

\* A context is handed over: Context(), or the context of a document being
\* rendered.
NewContext(ctx) ==
    /\ context' = ctx
    /\ renderCall' = NoRenderCall
    /\ UNCHANGED <<appVars, hasExtraData, docVars, loaderVars>>

\* A document is compiled whose registry the proxies belong to.
ContextCompile(items) ==
    /\ phase = "edit"
    /\ doc' = items
    /\ tmpl' = Template(Tokens(items), Origin(<<"d", "p">>, <<"p">>, "locmem"), hasExtraData)
    /\ phase' = "compiled"
    /\ UNCHANGED <<appVars, contextVars, hasExtraData, rendered, loaderVars>>

\* proxy.render(context)
ProxyRender(self) ==
    /\ phase = "compiled"
    /\ renderCall' = TemplateProxy_render_call(self, context, tmpl)
    /\ context' = TemplateProxy_render_exit(self, context, renderCall'.inside)
    /\ UNCHANGED <<appVars, hasExtraData, docVars, loaderVars>>

ContextInit ==
    /\ hasExtraData \in BOOLEAN
    /\ doc = <<>>
    /\ phase = "edit"
    /\ tmpl = NoTemplate
    /\ rendered = NotRendered
    /\ LoaderIdle
    /\ AppIdle
    /\ ContextIdle

ContextNext ==
    \/ \E items \in ContextDocs : ContextCompile(items)
    \/ \E ctx \in Contexts : NewContext(ctx)
    \/ \E self \in ContextProxies : ProxyRender(self)

ContextSpec == ContextInit /\ [][ContextNext]_vars

----------------------------------------------------------------------------
(* Properties of TemplateProxy.render (ContextSpec) *)

\* While the body renders, the render context has a scope pushed for the
\* proxy, and the proxy is bound as the current template, under its own name,
\* only when none was bound.
BoundOnlyWhenUnbound ==
    /\ renderCall.inside.render_context =
            [template |-> "partial " \o renderCall.proxy,
             depth |-> renderCall.before.render_context.depth + 1]
    /\ renderCall.before.template = "" =>
            /\ renderCall.inside.template = "partial " \o renderCall.proxy
            /\ renderCall.inside.template_name = renderCall.proxy
    /\ renderCall.before.template # "" =>
            /\ renderCall.inside.template = renderCall.before.template
            /\ renderCall.inside.template_name = renderCall.before.template_name

\* C15 as stated: the binding happens only on an unbound context, and on
\* every exit the context is as it was before the call: current template,
\* visible template name and render context.
C15_ContextRestored ==
    renderCall.op = "render" =>
        /\ BoundOnlyWhenUnbound
        /\ context = renderCall.before

\* C15, amended: the binding happens only on an unbound context; on every
\* exit, by return or by exception, the current template and the render
\* context are as they were before the call; the visible template name is as
\* it was when a template was bound, and stays the fragment name when the
\* proxy bound itself.
C15_TemplateAndScopeRestored ==
    renderCall.op = "render" =>
        /\ BoundOnlyWhenUnbound
        /\ context.template = renderCall.before.template
        /\ context.render_context = renderCall.before.render_context
        /\ context.template_name =
              IF renderCall.before.template = "" THEN renderCall.proxy
              ELSE renderCall.before.template_name

\* A render on a new context that was left by an exception.
C15_Witness ==
    /\ renderCall.op = "render"
    /\ renderCall.err.type = "TemplateSyntaxError"
    /\ renderCall.before = NoContext
    /\ context.template = ""
    /\ context.template_name = "c"

====
